---- MODULE Spec2Model ----
(***************************************************************************)
(* The cart of script.js: the in-memory cart array, the localStorage key   *)
(* 'vyndetta_cart', and the functions that change them (addToCart,         *)
(* removeFromCart, updateQuantity, loadCart, saveCart) or read them        *)
(* (calculateTotal, getTotalItems).                                        *)
(*                                                                         *)
(* JavaScript values are tagged records.  Numbers are integers (a price    *)
(* is a whole number of currency units); NaN is a value of its own.        *)
(* The text JSON.stringify writes is a sequence of objects, an object a    *)
(* sequence of members, a member a key and a literal.                      *)
(*                                                                         *)
(* A handler is an operator from the cart and the stored value to the two  *)
(* after it, with the message it passed to showNotification and the error  *)
(* it raised; the actions apply these operators.  The document is one      *)
(* with the cart elements (#cart-items, #cart-subtotal, #cart-total and    *)
(* the cart link).  Spec keeps the cart and the storage, and of the        *)
(* document only whether updateCartDisplay throws; SpecView keeps in view  *)
(* what updateCartDisplay and updateCartBadge wrote last.  The second tab, *)
(* the clock of the product ids, the notifications and the slideshow of a  *)
(* card each have a specification of their own over the same handlers.     *)
(*                                                                         *)
(* localStorage.setItem either succeeds throughout a behaviour or throws   *)
(* throughout it (quota); the handler operators take the outcome of the    *)
(* write as a parameter, so a property of one call is stated for both.     *)
(***************************************************************************)
EXTENDS Integers, Sequences, FiniteSets, TLC

\* ------------------------------------------------------------- bounds
MaxId == 2
MaxQty == 2
MaxDelta == 2
MaxTime == 2
MaxNotes == 4
MaxSlides == 3
MaxTimers == 3

\* ------------------------------------------------- JavaScript values
Num(n) == [t |-> "number", v |-> n]
NaN == [t |-> "NaN"]
Str(s) == [t |-> "string", v |-> s]
Null == [t |-> "null"]
Undefined == [t |-> "undefined"]

\* ToNumber of the operands the cart code does arithmetic on.
ToNumber(x) ==
    CASE x.t = "number" -> x
      [] x.t = "NaN" -> NaN
      [] x.t = "null" -> Num(0)
      [] x.t = "undefined" -> NaN

\* a + b on numbers
JSAdd(a, b) ==
    LET x == ToNumber(a)
        y == ToNumber(b)
    IN  IF x.t = "NaN" \/ y.t = "NaN" THEN NaN ELSE Num(x.v + y.v)

\* a * b
JSMul(a, b) ==
    LET x == ToNumber(a)
        y == ToNumber(b)
    IN  IF x.t = "NaN" \/ y.t = "NaN" THEN NaN ELSE Num(x.v * y.v)

\* a <= n for an integer n (false when a is NaN)
JSLeq(a, n) ==
    LET x == ToNumber(a)
    IN  x.t = "number" /\ x.v <= n

\* a > n for an integer n (false when a is NaN)
JSGt(a, n) ==
    LET x == ToNumber(a)
    IN  x.t = "number" /\ x.v > n

\* a === b
StrictEquals(a, b) == a.t # "NaN" /\ a = b

\* x.toFixed: a TypeError unless x is a number
ToFixedThrows(x) == x.t \notin {"number", "NaN"}

\* `$${x.toFixed(2)}` for a number x: the text with the digits of x and two
\* decimals, '$NaN' for NaN
ToFixed2(x) == [t |-> "string", dollars |-> x, decimals |-> 2]

\* ------------------------------------------------------------- inputs
Ids == 1..MaxId
Deltas == (0 - MaxDelta)..MaxDelta

\* What the click handler of a product card reads from the card: a trimmed
\* title, the parseFloat of the price text (NaN when the text is no number)
\* and the src of an image.
Cards ==
    { [title |-> Str("A"), price |-> Num(5), image |-> Str("a.png")],
      [title |-> Str("B"), price |-> NaN, image |-> Str("b.png")] }

\* the cards in document order: cartIcons.forEach((icon, index) => ...)
\* numbers them from 0
CardAt(index) ==
    CHOOSE c \in Cards : c.title = (IF index = 0 THEN Str("A") ELSE Str("B"))

Products ==
    { [id |-> Num(i), title |-> c.title, price |-> c.price, image |-> c.image] :
        i \in Ids, c \in Cards }

\* --------------------------------------------------------------- JSON
Keys == <<"id", "title", "price", "image", "quantity">>

\* the literal JSON.stringify writes for a value
Literal(x) ==
    CASE x.t = "number" -> [lit |-> "number", v |-> x.v]
      [] x.t = "NaN" -> [lit |-> "null"]
      [] x.t = "null" -> [lit |-> "null"]
      [] x.t = "string" -> [lit |-> "string", v |-> x.v]

\* the object text of one cart line: a member per property that is not
\* undefined, in the order the properties were created
ObjectText(item) ==
    LET present == SelectSeq(Keys, LAMBDA k : item[k].t # "undefined")
    IN  [j \in 1..Len(present) |->
            [key |-> present[j], lit |-> Literal(item[present[j]])]]

JSONstringify(c) == [i \in 1..Len(c) |-> ObjectText(c[i])]

\* the value JSON.parse reads from a literal
LiteralValue(l) ==
    CASE l.lit = "number" -> Num(l.v)
      [] l.lit = "null" -> Null
      [] l.lit = "string" -> Str(l.v)

\* the property k of the object parsed from the text o
Member(o, k) ==
    LET at == {j \in 1..Len(o) : o[j].key = k}
    IN  IF at = {} THEN Undefined
        ELSE LiteralValue(o[CHOOSE j \in at : \A m \in at : m <= j].lit)

ParseObject(o) ==
    [id |-> Member(o, "id"), title |-> Member(o, "title"),
     price |-> Member(o, "price"), image |-> Member(o, "image"),
     quantity |-> Member(o, "quantity")]

JSONparse(text) == [i \in 1..Len(text) |-> ParseObject(text[i])]

\* ------------------------------------------------------------ storage
\* localStorage.getItem('vyndetta_cart'): null, or the text last written;
\* or a value something else left under the key: the empty string, or a
\* string that is no JSON text
Absent == [k |-> "absent"]
Stored(text) == [k |-> "text", text |-> text]
EmptyValue == [k |-> "empty"]
Malformed == [k |-> "malformed"]

\* if (savedCart)
Truthy(s) == s.k \in {"text", "malformed"}

\* -------------------------------------------------------------- state
VARIABLES
    cart,           \* let cart
    storage,        \* the value under 'vyndetta_cart'
    last,           \* the last call made: its name and what it returned
    quota,          \* whether localStorage.setItem succeeds or throws
    adds,           \* addToCart calls made, while no other call changed the
                    \* cart since the page was opened with an empty storage;
                    \* -1 once another call did
    addedIds,       \* the ids those calls passed
    view,           \* what updateCartDisplay and updateCartBadge wrote last
    cart2,          \* let cart of a second tab on the same storage
    saver,          \* the tab whose localStorage.setItem completed last
    now,            \* Date.now()
    doc,            \* the .notification elements of the body, in order
    hidden,         \* the notification elements with the class 'hide'
    timers,         \* the setTimeout callbacks of showNotification to run
    created,        \* the notification elements created so far
    slides,         \* the classes of each .slides img of a card
    dots,           \* the classes of each .dot of the card
    currentSlide,   \* let currentSlide
    autoSlideInterval,  \* let autoSlideInterval: 0 while undefined
    intervals,      \* the ids of the setInterval timers that are set
    handles,        \* the timer ids setInterval has returned
    hover           \* whether the pointer is over the card

tabVars == <<cart2, saver>>
noteVars == <<doc, hidden, timers, created>>
slideVars == <<slides, dots, currentSlide, autoSlideInterval, intervals, handles, hover>>

vars == <<cart, storage, last, quota, adds, addedIds, view, tabVars, now,
          noteVars, slideVars>>

Called(op, value) == [op |-> op, value |-> value]

\* ---------------------------------------------------- pure functions
\* Find with the line itself compared to the id (item === id): no match
FindComparesItem(c, id) == 0

\* cart.find(item => item.id === id): the index of the first such line, 0
\* when there is none
Find(c, id) ==
    LET at == {i \in 1..Len(c) : StrictEquals(c[i].id, id)}
    IN  IF at = {} THEN 0 ELSE CHOOSE i \in at : \A j \in at : i <= j

\* cart.filter(item => item.id !== id)
Filter(c, id) == SelectSeq(c, LAMBDA item : ~StrictEquals(item.id, id))

\* LineCost without the quantity
LineCostNoQuantity(item) == ToNumber(item.price)

\* item.price * item.quantity
LineCost(item) == JSMul(item.price, item.quantity)

RECURSIVE TotalFrom(_, _)
\* c.reduce((total, item) => total + (item.price * item.quantity), total)
TotalFrom(c, total) ==
    IF c = <<>> THEN total
    ELSE TotalFrom(Tail(c), JSAdd(total, LineCost(Head(c))))

calculateTotal(c) == TotalFrom(c, Num(0))

RECURSIVE ItemsFrom(_, _)
\* c.reduce((total, item) => total + item.quantity, total)
ItemsFrom(c, total) ==
    IF c = <<>> THEN total
    ELSE ItemsFrom(Tail(c), JSAdd(total, Head(c).quantity))

\* getTotalItems as the number of lines (cart.length)
getTotalItemsLength(c) == Num(Len(c))

getTotalItems(c) == ItemsFrom(c, Num(0))

\* updateCartDisplay with a #cart-items element: the template of a line
\* calls item.price.toFixed(2)
DisplayThrows(c) == \E i \in 1..Len(c) : ToFixedThrows(c[i].price)

\* updateCartDisplay and updateCartBadge on the cart c: the lines of
\* #cart-items (none under 'Your cart is empty'), the text of
\* #cart-subtotal and #cart-total, and the text of the .cart-badge, Null
\* when the document has none
Render(c) ==
    [items |-> [i \in 1..Len(c) |->
                   [id |-> c[i].id, image |-> c[i].image, title |-> c[i].title,
                    price |-> ToFixed2(c[i].price), quantity |-> c[i].quantity]],
     subtotal |-> ToFixed2(calculateTotal(c)),
     total |-> ToFixed2(calculateTotal(c)),
     badge |-> IF JSGt(getTotalItems(c), 0) THEN getTotalItems(c) ELSE Null]

\* the cart elements as the page has them before any script wrote to them
StaticPage == [items |-> "static"]

\* ------------------------------------------------------------ handlers
\* A handler run from the cart c and the stored value st gives the two
\* after it, the message it passed to showNotification ("none" when it
\* did not call it) and the error it raised ("none" when it returned).
\* ok says whether localStorage.setItem succeeds in this run; when it
\* throws (the quota is exceeded, or the browser denies the storage), the
\* rest of the handler does not run.
Run(c, st, shown, raised) ==
    [cart |-> c, storage |-> st, shown |-> shown, raised |-> raised]

\* saveCart that keeps the stored lines the cart has no line for
saveCartMerges(c, st, ok) ==
    IF ~ok THEN st
    ELSE IF st.k # "text" THEN Stored(JSONstringify(c))
    ELSE Stored(JSONstringify(c) \o
                SelectSeq(st.text, LAMBDA o : Find(c, Member(o, "id")) = 0))

\* saveCart: the value under the key after localStorage.setItem
saveCart(c, st, ok) == IF ok THEN Stored(JSONstringify(c)) ELSE st

\* saveCart(); updateCartDisplay(); updateCartBadge(); and then
\* showNotification(after) when after is a message
SaveAndRefresh(c, st, shown, after, ok) ==
    IF ~ok THEN Run(c, st, shown, "QuotaExceededError")
    ELSE IF DisplayThrows(c) THEN Run(c, saveCart(c, st, ok), shown, "TypeError")
    ELSE Run(c, saveCart(c, st, ok), IF after = "none" THEN shown ELSE after, "none")

\* the line cart.push appends
NewLine(product) ==
    [id |-> product.id, title |-> product.title, price |-> product.price,
     image |-> product.image, quantity |-> Num(1)]

\* AddedCart with existingItem.quantity =+ 1
AddedCartAssigns(c, product) ==
    LET i == Find(c, product.id)
    IN  IF i # 0 THEN [c EXCEPT ![i].quantity = Num(1)]
        ELSE Append(c, NewLine(product))

\* AddedCart with the properties of the product copied onto the line
\* found (Object.assign(existingItem, product)) before the increment
AddedCartOverwrites(c, product) ==
    LET i == Find(c, product.id)
    IN  IF i # 0
        THEN [c EXCEPT ![i] = [NewLine(product) EXCEPT
                                  !.quantity = JSAdd(c[i].quantity, Num(1))]]
        ELSE Append(c, NewLine(product))

\* the cart after the if/else of addToCart
AddedCart(c, product) ==
    LET i == Find(c, product.id)
    IN  IF i # 0 THEN [c EXCEPT ![i].quantity = JSAdd(@, Num(1))]
        ELSE Append(c, NewLine(product))

AddedMessage(c, product) ==
    IF Find(c, product.id) # 0 THEN "Quantity updated in cart!"
    ELSE "Added to cart!"

addToCart(c, st, product, ok) ==
    SaveAndRefresh(AddedCart(c, product), st, AddedMessage(c, product), "none", ok)

\* removeFromCart with saveCart() called before the filter
removeFromCartSavesFirst(c, st, productId, ok) ==
    LET r == SaveAndRefresh(Filter(c, productId), st, "none", "Item removed from cart", ok)
    IN  IF ok THEN [r EXCEPT !.storage = saveCart(c, st, ok)] ELSE r

removeFromCart(c, st, productId, ok) ==
    SaveAndRefresh(Filter(c, productId), st, "none", "Item removed from cart", ok)

\* updateQuantity that removes the line only when item.quantity < 0
updateQuantityBelowZero(c, st, productId, change, ok) ==
    LET i == Find(c, productId)
        c1 == [c EXCEPT ![i].quantity = JSAdd(@, Num(change))]
    IN  IF i = 0 THEN Run(c, st, "none", "none")
        ELSE IF JSLeq(c1[i].quantity, -1) THEN removeFromCart(c1, st, productId, ok)
        ELSE SaveAndRefresh(c1, st, "none", "none", ok)

\* updateQuantity with item.quantity = change
updateQuantityAssigns(c, st, productId, change, ok) ==
    LET i == Find(c, productId)
        c1 == [c EXCEPT ![i].quantity = Num(change)]
    IN  IF i = 0 THEN Run(c, st, "none", "none")
        ELSE IF JSLeq(c1[i].quantity, 0) THEN removeFromCart(c1, st, productId, ok)
        ELSE SaveAndRefresh(c1, st, "none", "none", ok)

\* updateQuantity with saveCart() called before the test of item.quantity
updateQuantitySavesFirst(c, st, productId, change, ok) ==
    LET i == Find(c, productId)
        c1 == [c EXCEPT ![i].quantity = JSAdd(@, Num(change))]
    IN  IF i = 0 THEN Run(c, st, "none", "none")
        ELSE IF ~ok THEN Run(c1, st, "none", "QuotaExceededError")
        ELSE IF JSLeq(c1[i].quantity, 0) THEN removeFromCart(c1, st, productId, ok)
        ELSE SaveAndRefresh(c1, st, "none", "none", ok)

\* updateQuantity with the save and the refresh after the if (item)
updateQuantitySavesAlways(c, st, productId, change, ok) ==
    LET i == Find(c, productId)
        c1 == [c EXCEPT ![i].quantity = JSAdd(@, Num(change))]
    IN  IF i = 0 THEN SaveAndRefresh(c, st, "none", "none", ok)
        ELSE IF JSLeq(c1[i].quantity, 0) THEN removeFromCart(c1, st, productId, ok)
        ELSE SaveAndRefresh(c1, st, "none", "none", ok)

updateQuantity(c, st, productId, change, ok) ==
    LET i == Find(c, productId)
        c1 == [c EXCEPT ![i].quantity = JSAdd(@, Num(change))]
    IN  IF i = 0 THEN Run(c, st, "none", "none")
        ELSE IF JSLeq(c1[i].quantity, 0) THEN removeFromCart(c1, st, productId, ok)
        ELSE SaveAndRefresh(c1, st, "none", "none", ok)

\* JSON.parse throws a SyntaxError on a string that is no JSON text, and
\* the rest of loadCart does not run
loadCart(c, st) ==
    IF Truthy(st) /\ st.k = "malformed" THEN Run(c, st, "none", "SyntaxError")
    ELSE LET c1 == IF Truthy(st) THEN JSONparse(st.text) ELSE c
         IN  Run(c1, st, "none", IF DisplayThrows(c1) THEN "TypeError" ELSE "none")

\* ------------------------------------------------------------- actions
\* one tab
InitTabs == cart2 = <<>> /\ saver = 0

\* no notification yet
InitNotes == doc = <<>> /\ hidden = {} /\ timers = {} /\ created = 0

\* initializeSlideshow(card) on a card of n slides and n dots: goToSlide(0)
\* from currentSlide = 0
InitSlides(n) ==
    /\ slides = [i \in 1..n |-> IF i = 1 THEN {"active"} ELSE {}]
    /\ dots = [i \in 1..n |-> IF i = 1 THEN {"active"} ELSE {}]
    /\ currentSlide = 0
    /\ autoSlideInterval = 0
    /\ intervals = {}
    /\ handles = 0
    /\ hover = FALSE

\* The page opened on an absent key, init has run: loadCart has rendered
\* the empty cart.
Init ==
    /\ cart = <<>>
    /\ storage = Absent
    /\ last = Called("none", Undefined)
    /\ quota \in {"free", "exceeded"}
    /\ adds = 0
    /\ addedIds = {}
    /\ view = Render(<<>>)
    /\ InitTabs
    /\ now = 0
    /\ InitNotes
    /\ InitSlides(1)

\* the cart and the stored value after a handler run r
Becomes(r) ==
    /\ cart' = r.cart
    /\ storage' = r.storage
    /\ UNCHANGED <<quota, tabVars, now, noteVars, slideVars>>

\* whether localStorage.setItem succeeds now
WriteOk == quota = "free"

\* no line is counted past MaxQty
WithinQty(c) == \A i \in 1..Len(c) : JSLeq(c[i].quantity, MaxQty)

AddToCartCall(product) ==
    /\ WithinQty(AddedCart(cart, product))
    /\ Becomes(addToCart(cart, storage, product, WriteOk))
    /\ last' = Called("addToCart", Undefined)
    /\ adds' = IF adds >= 0 THEN adds + 1 ELSE adds
    /\ addedIds' = IF adds >= 0 THEN addedIds \cup {product.id} ELSE addedIds

CallAddToCart ==
    \E product \in Products : AddToCartCall(product) /\ UNCHANGED view

RemoveFromCartCall(id) ==
    /\ Becomes(removeFromCart(cart, storage, Num(id), WriteOk))
    /\ last' = Called("removeFromCart", Undefined)
    /\ adds' = -1
    /\ addedIds' = {}

CallRemoveFromCart ==
    \E id \in Ids : RemoveFromCartCall(id) /\ UNCHANGED view

UpdateQuantityCall(id, change) ==
    LET r == updateQuantity(cart, storage, Num(id), change, WriteOk)
    IN  /\ WithinQty(r.cart)
        /\ Becomes(r)
        /\ last' = Called("updateQuantity", Undefined)
        /\ adds' = -1
        /\ addedIds' = {}

CallUpdateQuantity ==
    \E id \in Ids, change \in Deltas :
        UpdateQuantityCall(id, change) /\ UNCHANGED view

CallLoadCart ==
    /\ Becomes(loadCart(cart, storage))
    /\ last' = Called("loadCart", Undefined)
    /\ adds' = -1
    /\ addedIds' = {}
    /\ UNCHANGED view

\* DOMContentLoaded in a new document: let cart = [], then init calls
\* loadCart
Opened ==
    /\ Becomes(loadCart(<<>>, storage))
    /\ last' = Called("init", Undefined)
    /\ adds' = IF storage = Absent THEN 0 ELSE -1
    /\ addedIds' = {}

PageLoad == Opened /\ UNCHANGED view

CallCalculateTotal ==
    /\ last' = Called("calculateTotal", calculateTotal(cart))
    /\ UNCHANGED <<cart, storage, quota, adds, addedIds, view, tabVars, now,
                   noteVars, slideVars>>

CallGetTotalItems ==
    /\ last' = Called("getTotalItems", getTotalItems(cart))
    /\ UNCHANGED <<cart, storage, quota, adds, addedIds, view, tabVars, now,
                   noteVars, slideVars>>

Next ==
    \/ CallAddToCart
    \/ CallRemoveFromCart
    \/ CallUpdateQuantity
    \/ CallLoadCart
    \/ PageLoad
    \/ CallCalculateTotal
    \/ CallGetTotalItems

Spec == Init /\ [][Next]_vars

\* The page opened on a key that something other than saveCart has written
\* or cleared.
InitForeign ==
    /\ cart = <<>>
    /\ storage \in {Absent, EmptyValue, Malformed}
    /\ last = Called("none", Undefined)
    /\ quota \in {"free", "exceeded"}
    /\ adds = 0
    /\ addedIds = {}
    /\ view = StaticPage
    /\ InitTabs
    /\ now = 0
    /\ InitNotes
    /\ InitSlides(1)

SpecForeign == InitForeign /\ [][Next]_vars

\* ----------------------------------------------------------- two tabs
\* Two tabs of the page on one localStorage, each with its own cart; the
\* handlers of a tab run to their end before a handler of the other runs.
\* The documents of the tabs are not kept.
Tabs == {1, 2}
TabIds == {1, 2}
TabDeltas == {-1, 1}

TabProducts ==
    { [id |-> Num(i), title |-> CardAt(0).title, price |-> CardAt(0).price,
       image |-> CardAt(0).image] : i \in TabIds }

\* let cart of the tab t
TabCart(t) == IF t = 1 THEN cart ELSE cart2

\* the state after the run r of a handler in the tab t; saves says whether
\* the run came to saveCart()
TabBecomes(t, r, saves) ==
    /\ cart' = IF t = 1 THEN r.cart ELSE cart
    /\ cart2' = IF t = 2 THEN r.cart ELSE cart2
    /\ storage' = r.storage
    /\ saver' = IF saves /\ WriteOk THEN t ELSE saver
    /\ UNCHANGED <<quota, adds, addedIds, view, now, noteVars, slideVars>>

TabAddToCart ==
    \E t \in Tabs, product \in TabProducts :
        /\ WithinQty(AddedCart(TabCart(t), product))
        /\ TabBecomes(t, addToCart(TabCart(t), storage, product, WriteOk), TRUE)
        /\ last' = Called("addToCart", Num(t))

TabRemoveFromCart ==
    \E t \in Tabs, id \in TabIds :
        /\ TabBecomes(t, removeFromCart(TabCart(t), storage, Num(id), WriteOk), TRUE)
        /\ last' = Called("removeFromCart", Num(t))

TabUpdateQuantity ==
    \E t \in Tabs, id \in TabIds, change \in TabDeltas :
        LET r == updateQuantity(TabCart(t), storage, Num(id), change, WriteOk)
        IN  /\ WithinQty(r.cart)
            /\ TabBecomes(t, r, Find(TabCart(t), Num(id)) # 0)
            /\ last' = Called("updateQuantity", Num(t))

\* the tab t is reloaded
TabPageLoad ==
    \E t \in Tabs :
        /\ TabBecomes(t, loadCart(<<>>, storage), FALSE)
        /\ last' = Called("init", Num(t))

NextTabs ==
    \/ TabAddToCart
    \/ TabRemoveFromCart
    \/ TabUpdateQuantity
    \/ TabPageLoad

SpecTabs == Init /\ [][NextTabs]_vars

\* ------------------------------------------------------ product cards
\* The click handlers setupAddToCartButtons puts on the cards, with the
\* clock the ids are read from.
Millisecond ==
    /\ now < MaxTime
    /\ now' = now + 1
    /\ last' = Called("Date.now", Num(now + 1))
    /\ UNCHANGED <<cart, storage, quota, adds, addedIds, view, tabVars,
                   noteVars, slideVars>>

\* the product the handler of the card index makes at the time t
ClickedProduct(index, t) ==
    [id |-> Num(t + index), title |-> CardAt(index).title,
     price |-> CardAt(index).price, image |-> CardAt(index).image]

Click ==
    \E index \in {0, 1} :
        /\ AddToCartCall(ClickedProduct(index, now))
        /\ UNCHANGED view

NextClicks == Millisecond \/ Click

SpecClicks == Init /\ [][NextClicks]_vars

\* ------------------------------------------------------ notifications
\* showNotification as the script leaves it: the second function
\* declaration replaces the first.  An element is the number of its
\* creation; each callback keeps the element of its own call.
\* showNotification without the removal of the existing notification (the
\* first declaration)
showNotificationAppends(d, el) == Append(d, el)

\* the notifications of the body after showNotification made el:
\* querySelector('.notification') gives the first one, which is removed,
\* and el is appended
showNotification(d, el) == Append(IF d # <<>> THEN Tail(d) ELSE d, el)

\* the element ids of the sequence d
Elements(d) == {d[i] : i \in 1..Len(d)}

ShowNotification ==
    /\ created < MaxNotes
    /\ created' = created + 1
    /\ doc' = showNotification(doc, created + 1)
    /\ timers' = timers \cup {[el |-> created + 1, fn |-> "hide"]}
    /\ last' = Called("showNotification", created + 1)
    /\ UNCHANGED <<cart, storage, quota, adds, addedIds, view, tabVars, now,
                   hidden, slideVars>>

\* the callback after duration: notification.classList.add('hide') and the
\* second setTimeout
HideTimer ==
    \E t \in timers :
        /\ t.fn = "hide"
        /\ hidden' = hidden \cup {t.el}
        /\ timers' = (timers \ {t}) \cup {[el |-> t.el, fn |-> "remove"]}
        /\ last' = Called("hide", t.el)
        /\ UNCHANGED <<cart, storage, quota, adds, addedIds, view, tabVars, now,
                       doc, created, slideVars>>

\* the callback 300 ms later: notification.remove()
RemoveTimer ==
    \E t \in timers :
        /\ t.fn = "remove"
        /\ doc' = SelectSeq(doc, LAMBDA el : el # t.el)
        /\ timers' = timers \ {t}
        /\ last' = Called("remove", t.el)
        /\ UNCHANGED <<cart, storage, quota, adds, addedIds, view, tabVars, now,
                       hidden, created, slideVars>>

NextNotes == ShowNotification \/ HideTimer \/ RemoveTimer

SpecNotes == Init /\ [][NextNotes]_vars

\* ---------------------------------------------------------- slideshow
\* initializeSlideshow on one card with as many dots as slides.  The
\* browser sends mouseenter and mouseleave to the card in turn.  Slides
\* and dots are numbered from 0 as in the script; the sequences slides and
\* dots hold the classes of slide i at i + 1.
\* goToSlide(index): the slides, the dots and currentSlide after it
goToSlide(s, cur, index) ==
    LET cleared == [i \in 1..Len(s) |-> {}]
        prev == IF cur # index THEN [cleared EXCEPT ![cur + 1] = {"prev"}]
                ELSE cleared
    IN  [slides |-> [prev EXCEPT ![index + 1] = @ \cup {"active"}],
         dots |-> [cleared EXCEPT ![index + 1] = {"active"}],
         currentSlide |-> index]

\* the index after nextSlide, counting down
nextIndexBack(cur, n) == (cur + n - 1) % n

\* (currentSlide + 1) % slides.length
nextIndex(cur, n) == (cur + 1) % n

\* clearInterval that clears nothing
clearIntervalKeeps(set, id) == set

\* the timers set after clearInterval(id)
clearInterval(set, id) == set \ {id}

\* the slides, the dots and currentSlide become those of g
Shows(g) ==
    /\ slides' = g.slides
    /\ dots' = g.dots
    /\ currentSlide' = g.currentSlide

MouseEnter ==
    /\ ~hover
    /\ hover' = TRUE
    /\ IF Len(slides) > 1
       THEN /\ handles < MaxTimers
            /\ handles' = handles + 1
            /\ autoSlideInterval' = handles + 1
            /\ intervals' = intervals \cup {handles + 1}
       ELSE UNCHANGED <<handles, autoSlideInterval, intervals>>
    /\ last' = Called("mouseenter", Undefined)
    /\ UNCHANGED <<cart, storage, quota, adds, addedIds, view, tabVars, now,
                   noteVars, slides, dots, currentSlide>>

MouseLeave ==
    /\ hover
    /\ hover' = FALSE
    /\ intervals' = clearInterval(intervals, autoSlideInterval)
    /\ Shows(goToSlide(slides, currentSlide, 0))
    /\ last' = Called("mouseleave", Undefined)
    /\ UNCHANGED <<cart, storage, quota, adds, addedIds, view, tabVars, now,
                   noteVars, autoSlideInterval, handles>>

DotClick ==
    \E index \in 0..(Len(dots) - 1) :
        /\ intervals' = clearInterval(intervals, autoSlideInterval)
        /\ Shows(goToSlide(slides, currentSlide, index))
        /\ last' = Called("dot", Num(index))
        /\ UNCHANGED <<cart, storage, quota, adds, addedIds, view, tabVars, now,
                       noteVars, autoSlideInterval, handles, hover>>

\* a timer set by setInterval(nextSlide, 2000) fires
IntervalFires ==
    \E id \in intervals :
        /\ Shows(goToSlide(slides, currentSlide,
                            nextIndex(currentSlide, Len(slides))))
        /\ last' = Called("nextSlide", Undefined)
        /\ UNCHANGED <<cart, storage, quota, adds, addedIds, view, tabVars, now,
                       noteVars, autoSlideInterval, intervals, handles, hover>>

\* a card of 1..MaxSlides slides, initialized
InitCard ==
    /\ cart = <<>>
    /\ storage = Absent
    /\ last = Called("none", Undefined)
    /\ quota = "free"
    /\ adds = 0
    /\ addedIds = {}
    /\ view = Render(<<>>)
    /\ InitTabs
    /\ now = 0
    /\ InitNotes
    /\ \E n \in 1..MaxSlides : InitSlides(n)

NextSlides == MouseEnter \/ MouseLeave \/ DotClick \/ IntervalFires

SpecSlides == InitCard /\ [][NextSlides]_vars

\* ----------------------------------------------------------- the view
\* the cart elements after a handler run r: updateCartDisplay() and
\* updateCartBadge() have written them when the run came to them (reached)
\* and raised nothing, before them or in them
Refresh(r, reached) ==
    view' = IF reached /\ r.raised = "none" THEN Render(r.cart) ELSE view

ViewAddToCart ==
    \E product \in Products :
        /\ AddToCartCall(product)
        /\ Refresh(addToCart(cart, storage, product, WriteOk), TRUE)

ViewRemoveFromCart ==
    \E id \in Ids :
        /\ RemoveFromCartCall(id)
        /\ Refresh(removeFromCart(cart, storage, Num(id), WriteOk), TRUE)

ViewUpdateQuantity ==
    \E id \in Ids, change \in Deltas :
        /\ UpdateQuantityCall(id, change)
        /\ Refresh(updateQuantity(cart, storage, Num(id), change, WriteOk),
                   Find(cart, Num(id)) # 0)

\* a new document has the cart elements as the page has them
ViewPageLoad ==
    /\ Opened
    /\ view' = IF loadCart(<<>>, storage).raised = "none"
               THEN Render(loadCart(<<>>, storage).cart)
               ELSE StaticPage

NextView ==
    \/ ViewAddToCart
    \/ ViewRemoveFromCart
    \/ ViewUpdateQuantity
    \/ ViewPageLoad

SpecView == Init /\ [][NextView]_vars

\* ------------------------------------------------------------- claims
\* the positions of the lines of c whose id is the number id
LinesWithId(c, id) == {i \in 1..Len(c) : c[i].id = Num(id)}

\* C1: addToCart(product) on any reachable cart does one of two things.
\* When a line has the id of the product, the number of lines is unchanged,
\* the quantity of that line is one more than before and the message is
\* 'Quantity updated in cart!'.  Otherwise the cart is the old cart with
\* one line appended, which holds the fields of the product and quantity
\* 1, and the message is 'Added to cart!'.
AddItemContract ==
    \A product \in Products, ok \in BOOLEAN :
        LET r == addToCart(cart, storage, product, ok)
            at == {i \in 1..Len(cart) : cart[i].id = product.id}
        IN  IF at # {}
            THEN /\ Len(r.cart) = Len(cart)
                 /\ \A i \in at : r.cart[i].quantity.v = cart[i].quantity.v + 1
                 /\ r.shown = "Quantity updated in cart!"
            ELSE /\ Len(r.cart) = Len(cart) + 1
                 /\ SubSeq(r.cart, 1, Len(cart)) = cart
                 /\ r.cart[Len(r.cart)] =
                        [id |-> product.id, title |-> product.title,
                         price |-> product.price, image |-> product.image,
                         quantity |-> Num(1)]
                 /\ r.shown = "Added to cart!"

\* C1 witness: three addToCart calls from the empty cart left two lines, so
\* two of them appended a line and one raised a quantity.
AddItemBothWays ==
    /\ last.op = "addToCart"
    /\ adds = 3
    /\ Len(cart) = 2

\* C2: no two lines of the cart have the same id.
UniqueIds ==
    \A i, j \in 1..Len(cart) : i # j => cart[i].id # cart[j].id

\* C2 witness: a cart of two lines in which addToCart met an id again.
TwoLinesOneRepeated ==
    /\ last.op = "addToCart"
    /\ Len(cart) = 2
    /\ cart[1].quantity = Num(2)
    /\ cart[2].quantity = Num(1)

\* the member with key k of the object text o is a number literal >= 1
NumberAtLeastOne(o, k) ==
    \E j \in 1..Len(o) : o[j].key = k /\ o[j].lit.lit = "number" /\ o[j].lit.v >= 1

\* C3: between calls every line of the cart has a quantity >= 1, and so
\* has every object of the text under the storage key.
QuantitiesAtLeastOne ==
    /\ \A i \in 1..Len(cart) :
            cart[i].quantity.t = "number" /\ cart[i].quantity.v >= 1
    /\ storage.k = "text" =>
            \A i \in 1..Len(storage.text) : NumberAtLeastOne(storage.text[i], "quantity")

\* C3 witness: updateQuantity has run, the cart is empty and the text
\* written last is the empty array.
EmptiedByUpdate ==
    /\ last.op = "updateQuantity"
    /\ cart = <<>>
    /\ storage = Stored(<<>>)

\* C4: updateQuantity(id, change) on a line that is present.  When the old
\* quantity plus change is > 0 the cart is the old cart with that quantity
\* in that line, in place.  When it is <= 0 the line is gone and the cart,
\* the stored value, the message and the error are those of
\* removeFromCart(id) on the cart before the call; the message is 'Item
\* removed from cart' when the run completes.
UpdateQuantityContract ==
    \A id \in Ids, change \in Deltas, ok \in BOOLEAN :
        LET r == updateQuantity(cart, storage, Num(id), change, ok)
        IN  \A i \in LinesWithId(cart, id) :
                IF cart[i].quantity.v + change > 0
                THEN r.cart = [cart EXCEPT ![i].quantity = Num(cart[i].quantity.v + change)]
                ELSE /\ LinesWithId(r.cart, id) = {}
                     /\ r = removeFromCart(cart, storage, Num(id), ok)
                     /\ r.raised = "none" => r.shown = "Item removed from cart"

\* C4 witness: after an updateQuantity a line has quantity 2, so that a
\* change of -1 keeps it and a change of -2 removes it.
UpdatedToTwo ==
    /\ last.op = "updateQuantity"
    /\ \E i \in 1..Len(cart) : cart[i].quantity = Num(2)

\* C5: updateQuantity(id, change) with an id no line has changes neither
\* the cart nor the stored value, shows no notification and raises no
\* error, for every change and whether or not the storage can be written.
UpdateAbsentIsNoOp ==
    \A id \in Ids, change \in Deltas, ok \in BOOLEAN :
        LinesWithId(cart, id) = {} =>
            LET r == updateQuantity(cart, storage, Num(id), change, ok)
            IN  /\ r.cart = cart
                /\ r.storage = storage
                /\ r.shown = "none"
                /\ r.raised = "none"

\* C5 witness: updateQuantity has run and left one line, written to the
\* storage, so that the other id has no line.
UpdateLeftOneLine ==
    /\ last.op = "updateQuantity"
    /\ Len(cart) = 1
    /\ storage = Stored(JSONstringify(cart))

\* C6: removeFromCart(id), with a storage that can be written, removes the
\* line with that id and leaves the other lines as they were, with the
\* message 'Item removed from cart'; when no line has the id the cart is
\* unchanged, no error is raised and that message is not shown.
RemoveItemContract ==
    \A id \in Ids :
        LET r == removeFromCart(cart, storage, Num(id), TRUE)
        IN  /\ r.cart = SelectSeq(cart, LAMBDA item : item.id # Num(id))
            /\ IF LinesWithId(cart, id) # {}
               THEN r.raised = "none" => r.shown = "Item removed from cart"
               ELSE r.raised = "none" /\ r.shown # "Item removed from cart"

\* the cost of a line as an integer: price times quantity, a null price
\* counting as 0
IntCost(item) ==
    IF item.price.t = "number" THEN item.price.v * item.quantity.v ELSE 0

RECURSIVE SumUpTo(_, _)
\* the integer costs of the first n lines of c, added up from the last
SumUpTo(c, n) == IF n = 0 THEN 0 ELSE IntCost(c[n]) + SumUpTo(c, n - 1)

\* the sum over the lines of c of price * quantity: NaN when a price is NaN
SumOfLines(c) ==
    IF \E i \in 1..Len(c) : c[i].price.t = "NaN" THEN NaN
    ELSE Num(SumUpTo(c, Len(c)))

\* C7: in every reachable state calculateTotal of the cart is the sum over
\* its lines of price * quantity, 0 for the empty cart, and it is what a
\* call of calculateTotal has returned; a call of calculateTotal changes
\* neither the cart nor the stored value.
TotalIsSumOfLines ==
    /\ [](/\ calculateTotal(cart) = SumOfLines(cart)
          /\ cart = <<>> => calculateTotal(cart) = Num(0)
          /\ last.op = "calculateTotal" => last.value = SumOfLines(cart))
    /\ [][last'.op = "calculateTotal" => cart' = cart /\ storage' = storage]_vars

\* C7 witness: calculateTotal returned 15 for a cart of two lines.
TotalOfTwoLines ==
    /\ last.op = "calculateTotal"
    /\ Len(cart) = 2
    /\ last.value = Num(15)

\* C8: after n addToCart calls from the empty cart, and no other call,
\* getTotalItems is n and the number of lines is the number of distinct
\* ids passed.
AddsAreCounted ==
    adds >= 0 =>
        /\ getTotalItems(cart) = Num(adds)
        /\ Len(cart) = Cardinality(addedIds)

\* C8 witness: four addToCart calls with two distinct ids.
FourAddsTwoIds ==
    /\ adds = 4
    /\ Cardinality(addedIds) = 2
    /\ last.op = "addToCart"

\* C9: with a storage that can be written, the cart loaded into an empty
\* cart from the text saveCart writes for the current cart is the current
\* cart: same lines, same fields, same order.
SaveLoadRoundTrip ==
    WriteOk => loadCart(<<>>, saveCart(cart, storage, WriteOk)).cart = cart

\* C10: when the storage key is absent the cart after loadCart is empty,
\* with calculateTotal 0 and getTotalItems 0, whatever the cart was.
LoadReplacesCart ==
    ~Truthy(storage) =>
        LET r == loadCart(cart, storage)
        IN  /\ r.cart = <<>>
            /\ calculateTotal(r.cart) = Num(0)
            /\ getTotalItems(r.cart) = Num(0)

\* the lines of c have distinct ids and quantities >= 1
ValidCart(c) ==
    /\ \A i, j \in 1..Len(c) : i # j => c[i].id # c[j].id
    /\ \A i \in 1..Len(c) : c[i].quantity.t = "number" /\ c[i].quantity.v >= 1

\* the run failed at the write, and left a valid cart that is the cart the
\* run s with the write succeeding left
FailsCleanly(f, s) ==
    /\ f.raised = "QuotaExceededError"
    /\ f.storage = storage
    /\ f.cart = s.cart
    /\ ValidCart(f.cart)

\* C12: when localStorage.setItem throws inside saveCart during addToCart,
\* removeFromCart or updateQuantity (on a line that is present), the call
\* raises the error, the stored value is unchanged, and the cart is valid
\* and is the cart the call leaves when the write succeeds.
WriteFailureKeepsCart ==
    /\ \A product \in Products :
            FailsCleanly(addToCart(cart, storage, product, FALSE),
                         addToCart(cart, storage, product, TRUE))
    /\ \A id \in Ids :
            FailsCleanly(removeFromCart(cart, storage, Num(id), FALSE),
                         removeFromCart(cart, storage, Num(id), TRUE))
    /\ \A id \in Ids, change \in Deltas :
            LinesWithId(cart, id) # {} =>
                FailsCleanly(updateQuantity(cart, storage, Num(id), change, FALSE),
                             updateQuantity(cart, storage, Num(id), change, TRUE))

\* C12 witness: the storage cannot be written, and updateQuantity has left
\* one line with quantity 2.
UpdatedWithoutStorage ==
    /\ quota = "exceeded"
    /\ last.op = "updateQuantity"
    /\ Len(cart) = 1
    /\ cart[1].quantity = Num(2)
    /\ storage = Absent

\* C13: where the storage can be written, between calls the key is absent
\* and the cart empty, or the value under the key is the text
\* JSON.stringify writes for the cart.
StoredIsSerializedCart ==
    WriteOk =>
        \/ storage = Absent /\ cart = <<>>
        \/ /\ storage.k = "text"
           /\ Len(storage.text) = Len(cart)
           /\ \A i \in 1..Len(cart) : storage.text[i] = ObjectText(cart[i])

\* C13 witness: removeFromCart has left one of two lines, and it is the
\* one object of the stored text.
RemovedOneOfTwo ==
    /\ WriteOk
    /\ last.op = "removeFromCart"
    /\ Len(cart) = 1
    /\ storage.k = "text"
    /\ Len(storage.text) = 1
    /\ cart[1].id = Num(2)

\* C15: addToCart(product) with an id a line has leaves the cart as it was
\* but for the quantity of that line, one more: its title, price and image
\* and every other line are unchanged, whatever the product carries.
AddExistingKeepsFields ==
    \A product \in Products, ok \in BOOLEAN :
        \A i \in 1..Len(cart) :
            cart[i].id = product.id =>
                LET r == addToCart(cart, storage, product, ok)
                IN  /\ Len(r.cart) = Len(cart)
                    /\ \A j \in 1..Len(cart) :
                          /\ r.cart[j].id = cart[j].id
                          /\ r.cart[j].title = cart[j].title
                          /\ r.cart[j].price = cart[j].price
                          /\ r.cart[j].image = cart[j].image
                          /\ j # i => r.cart[j].quantity = cart[j].quantity

\* C15 witness: addToCart met the id of the second line again; that line
\* has the NaN price and the title 'B' it was added with.
SecondLineAddedTwice ==
    /\ last.op = "addToCart"
    /\ Len(cart) = 2
    /\ cart[2].quantity = Num(2)
    /\ cart[2].price = NaN
    /\ cart[2].title = Str("B")
    /\ cart[1].title = Str("A")

\* C11: with a value under the key that is no JSON text, loadCart raises
\* no error and leaves the cart empty.
LoadNeverFails ==
    storage = Malformed =>
        LET r == loadCart(cart, storage)
        IN  r.raised = "none" /\ r.cart = <<>>

\* C17: between operations the view shows the cart: the item list has the
\* lines of the cart with their quantities, the subtotal and the total are
\* the text of calculateTotal, and the badge is getTotalItems when that is
\* > 0 and absent when it is 0.
ViewReflectsCart ==
    /\ view # StaticPage
    /\ Len(view.items) = Len(cart)
    /\ \A i \in 1..Len(cart) :
          /\ view.items[i].id = cart[i].id
          /\ view.items[i].quantity = cart[i].quantity
    /\ view.subtotal = ToFixed2(calculateTotal(cart))
    /\ view.total = ToFixed2(calculateTotal(cart))
    /\ view.badge = (IF getTotalItems(cart) = Num(0) THEN Null
                     ELSE getTotalItems(cart))

\* C14: with two tabs on the shared key, under every interleaving of their
\* addToCart, removeFromCart and updateQuantity calls the value under the
\* key is the text of the cart of the tab whose save completed last, and
\* absent while no save has; nothing of the other tab's cart is merged
\* into it.
LastWriteWins ==
    /\ saver = 0 => storage = Absent
    /\ saver = 1 => storage = Stored(JSONstringify(cart))
    /\ saver = 2 => storage = Stored(JSONstringify(cart2))

\* C14 witness: the second tab holds a line with id 2, and the first tab
\* saved last: the stored text is its one line with id 1.
FirstTabOverwrote ==
    /\ saver = 1
    /\ Len(cart) = 1
    /\ cart[1].id = Num(1)
    /\ Len(cart2) = 1
    /\ cart2[1].id = Num(2)
    /\ storage = Stored(JSONstringify(cart))
    /\ storage # Stored(JSONstringify(cart2))

\* C16: every click on a product card makes a line of its own: after any
\* clicks on any cards at any times, and no other call, the cart has one
\* line per click, each with quantity 1.
EveryClickNewLine ==
    adds >= 0 =>
        /\ Len(cart) = adds
        /\ \A i \in 1..Len(cart) : cart[i].quantity = Num(1)

\* C18: under any interleaving of showNotification calls and the hide and
\* remove callbacks of earlier calls, the body holds at most one
\* notification, and a callback of a notification that is not the one in
\* the body neither removes the one in the body nor gives it the class
\* 'hide'.
OneNotification ==
    /\ [](Len(doc) <= 1)
    /\ [][(last'.op \in {"hide", "remove"} /\ last'.value \notin Elements(doc))
            => (doc' = doc /\ hidden' \cap Elements(doc) = hidden \cap Elements(doc))]_vars

\* C18 witness: the remove callback of the first notification has run
\* while the third, made after the second replaced the first, is in the
\* body and not hidden.
OldTimerRan ==
    /\ last = Called("remove", 1)
    /\ doc = <<3>>
    /\ hidden = {1}

====
